---------------------------- MODULE Spec2Model ----------------------------
(***************************************************************************)
(* A model of the PG-Weather Skew-T visualizer: the SkewTDiagram renderer  *)
(* (src/README.md, lines 137-764), the SoundingApp controller (src/app.js) *)
(* and the result shape of SoundingDataParser.parse (src/unnamed/part_000).*)
(*                                                                         *)
(* Numbers.  A stored JavaScript number (a Level's field, hMin, hMax, the  *)
(* parsed value of a height input) is an integer, or one of the sentinels  *)
(* NaN and Inf.  Relational operators go through Lt/Le/Gt/Ge, which are    *)
(* false as soon as one side is NaN, as in JavaScript.  A computed value   *)
(* (an interpolation, a plot coordinate) is an exact extended rational     *)
(* <<n, d>> with d >= 0: <<0,0>> is NaN, <<1,0>> is +Infinity, <<-1,0>> is *)
(* -Infinity.  Floating-point rounding is not modelled.                    *)
(*                                                                         *)
(* Wind speeds are held in units of 1/36 m/s, and speeds in km/h in units  *)
(* of 0.05 km/h, so that speedMS * 3.6 is speedMS * 2 and the thresholds   *)
(* 2.5, 7.5 and 47.5 km/h are the integers 50, 150 and 950.                *)
(***************************************************************************)
EXTENDS Integers, Sequences, FiniteSets, TLC

VARIABLES
    hMin, hMax, soundingData,          \* SkewTDiagram fields
    drawLog, drawnRange, tempLine, dewLine, windBarbs, threw,   \* what the last draw put on the canvas
    currentSoundingData, minHeightInput, maxHeightInput,   \* SoundingApp
    errorActive, loadingActive, loadBtnDisabled, requests, nextId,
    attempt,            \* per loadSounding call, by id: the source its fetchData tries, or how it ended
    query, answer,                     \* the last direct call of a query method and its result
    fetchPc, fetchLog                  \* a call of fetchData: where it is, the requests it made

diagramVars == <<hMin, hMax, soundingData>>
canvasVars == <<drawLog, drawnRange, tempLine, dewLine, windBarbs, threw>>
appVars == <<currentSoundingData, minHeightInput, maxHeightInput, errorActive, loadingActive, loadBtnDisabled, requests, nextId, attempt>>
fetchVars == <<fetchPc, fetchLog>>
callVars == <<query, answer, fetchVars>>
vars == <<diagramVars, canvasVars, appVars, callVars>>

----------------------------------------------------------------------------
(* JavaScript numbers *)

NaN == 9999999
Inf == 1000000
NegInf == -1000000

isNaN(x) == x = NaN
Lt(a, b) == a # NaN /\ b # NaN /\ a < b
Le(a, b) == a # NaN /\ b # NaN /\ a <= b
Gt(a, b) == a # NaN /\ b # NaN /\ a > b
Ge(a, b) == a # NaN /\ b # NaN /\ a >= b

Abs(n) == IF n < 0 THEN -n ELSE n
Sign(n) == IF n < 0 THEN -1 ELSE IF n > 0 THEN 1 ELSE 0

RECURSIVE GCD(_, _)
GCD(a, b) == IF b = 0 THEN a ELSE GCD(b, a % b)

\* the rational n/d in lowest terms, d # 0
Norm(n, d) ==
    LET g == GCD(Abs(n), Abs(d))
        s == IF d < 0 THEN -1 ELSE 1
    IN  <<(s * n) \div g, (s * d) \div g>>

RNaN == <<0, 0>>
RInf(s) == <<s, 0>>
R(i) ==
    IF i = NaN THEN RNaN
    ELSE IF i = Inf THEN RInf(1)
    ELSE IF i = NegInf THEN RInf(-1)
    ELSE <<i, 1>>

RIsNaN(a) == a = RNaN
RIsInf(a) == a[2] = 0 /\ a[1] # 0
RIsFinite(a) == a[2] # 0

RNeg(a) == <<-a[1], a[2]>>
RAdd(a, b) ==
    IF RIsNaN(a) \/ RIsNaN(b) THEN RNaN
    ELSE IF RIsInf(a) /\ RIsInf(b) THEN (IF a = b THEN a ELSE RNaN)
    ELSE IF RIsInf(a) THEN a
    ELSE IF RIsInf(b) THEN b
    ELSE Norm(a[1] * b[2] + b[1] * a[2], a[2] * b[2])
RSub(a, b) == RAdd(a, RNeg(b))
RMul(a, b) ==
    IF RIsNaN(a) \/ RIsNaN(b) THEN RNaN
    ELSE IF RIsInf(a) \/ RIsInf(b)
         THEN (IF a[1] = 0 \/ b[1] = 0 THEN RNaN ELSE RInf(Sign(a[1]) * Sign(b[1])))
    ELSE Norm(a[1] * b[1], a[2] * b[2])
\* a zero divisor is +0: every divisor of the program is a difference x - y
RDiv(a, b) ==
    IF RIsNaN(a) \/ RIsNaN(b) THEN RNaN
    ELSE IF RIsInf(b) THEN (IF RIsInf(a) THEN RNaN ELSE <<0, 1>>)
    ELSE IF RIsInf(a) THEN RInf(Sign(a[1]) * Sign(b[1]))
    ELSE IF b[1] = 0 THEN (IF a[1] = 0 THEN RNaN ELSE RInf(Sign(a[1])))
    ELSE Norm(a[1] * b[2], a[2] * b[1])
RLe(a, b) ==
    /\ ~RIsNaN(a) /\ ~RIsNaN(b)
    /\ IF RIsInf(a) THEN (a[1] < 0 \/ a = b)
       ELSE IF RIsInf(b) THEN b[1] > 0
       ELSE a[1] * b[2] <= b[1] * a[2]
RLt(a, b) == RLe(a, b) /\ a # b

----------------------------------------------------------------------------
(* SkewTDiagram.drawWindBarb *)

\* the staff length, and in units of 0.05 km/h: 2.5 (calm), 50 and 47.5 (pennant),
\* 10 and 7.5 (full barb), 2.5 (half barb)
barbLength == 30
CalmKmh == 50
PennantKmh == 1000
PennantMin == 950
BarbKmh == 200
BarbMin == 150
HalfMin == 50

Prim(kind, dist) == [kind |-> kind, dist |-> dist]

\* speedMS * 3.6
ToKmh(speedMS) == speedMS * 2

RECURSIVE PennantLoopNoRounding(_)
PennantLoopNoRounding(st) ==
    IF st.speed >= PennantKmh
    THEN PennantLoopNoRounding([speed |-> st.speed - PennantKmh, dist |-> st.dist - 10,
                      out |-> Append(st.out, Prim("pennant", st.dist))])
    ELSE st

\* while (currentSpeed >= 47.5) { pennant; currentSpeed -= 50; currentDist -= 10 }
RECURSIVE PennantLoop(_)
PennantLoop(st) ==
    IF st.speed >= PennantMin
    THEN PennantLoop([speed |-> st.speed - PennantKmh, dist |-> st.dist - 10,
                      out |-> Append(st.out, Prim("pennant", st.dist))])
    ELSE st

RECURSIVE BarbLoopNoRounding(_)
BarbLoopNoRounding(st) ==
    IF st.speed >= BarbKmh
    THEN BarbLoopNoRounding([speed |-> st.speed - BarbKmh, dist |-> st.dist - 6,
                   out |-> Append(st.out, Prim("barb", st.dist))])
    ELSE st

\* while (currentSpeed >= 7.5) { full barb; currentSpeed -= 10; currentDist -= 6 }
RECURSIVE BarbLoop(_)
BarbLoop(st) ==
    IF st.speed >= BarbMin
    THEN BarbLoop([speed |-> st.speed - BarbKmh, dist |-> st.dist - 6,
                   out |-> Append(st.out, Prim("barb", st.dist))])
    ELSE st

\* if (currentSpeed >= 2.5) { half barb }
HalfBarb(st) ==
    IF st.speed >= HalfMin
    THEN [st EXCEPT !.out = Append(st.out, Prim("half", st.dist))]
    ELSE st

\* the primitives drawWindBarb puts on the canvas, in order
drawWindBarb(speedMS) ==
    LET speedKmh == ToKmh(speedMS)
    IN  IF speedKmh < CalmKmh
        THEN <<Prim("circle", 0)>>
        ELSE HalfBarb(BarbLoop(PennantLoop(
                 [speed |-> speedKmh, dist |-> barbLength,
                  out |-> <<Prim("staff", barbLength)>>]))).out

----------------------------------------------------------------------------
(* Profiles *)

\* "no sounding" (null), and a parse result {metadata, data, valid}
Null == [tag |-> "null"]
Result(data) == [tag |-> "result", data |-> data, valid |-> Len(data) > 0]
IsNull(sd) == sd.tag = "null"

Level(p, h, t, td, ws, wd) ==
    [pressure |-> p, height |-> h, temp |-> t, dewpoint |-> td, windSpeed |-> ws, windDir |-> wd]

----------------------------------------------------------------------------
(* SkewTDiagram: coordinate transforms *)

pMin == 100
pMax == 1050
marginTop == 50
\* this.height = canvas.height - margin.top - margin.bottom; the canvas is 800 high
\* here (the page that sizes it is not part of the sources), any positive height
\* gives the same NaN cases
plotHeight == 700
marginLeft == 100
\* this.width = canvas.width - margin.left - margin.right, the canvas taken 1000 wide
plotWidth == 750

\* heightToY, with the view bounds as arguments
heightToY(lo, hi, h) ==
    LET ratio == RDiv(RSub(R(h), R(lo)), RSub(R(hi), R(lo)))
    IN  RAdd(R(marginTop), RMul(R(plotHeight), RSub(R(1), ratio)))

\* h1 + ratio * (h2 - h1) with the end points exchanged
LinearInterpSwapped(p, p1, h1, p2, h2) ==
    LET ratio == RDiv(RSub(R(p), R(p1)), RSub(R(p2), R(p1)))
    IN  RAdd(R(h2), RMul(ratio, RSub(R(h1), R(h2))))

\* ratio = (p - p1) / (p2 - p1); h1 + ratio * (h2 - h1)
LinearInterp(p, p1, h1, p2, h2) ==
    LET ratio == RDiv(RSub(R(p), R(p1)), RSub(R(p2), R(p1)))
    IN  RAdd(R(h1), RMul(ratio, RSub(R(h2), R(h1))))

\* the pairs i, i+1 with data[i].pressure >= p && data[i + 1].pressure <= p
Bracketing(data, p) ==
    {i \in 1..(Len(data) - 1) : Ge(data[i].pressure, p) /\ Le(data[i + 1].pressure, p)}

SetMin(S) == CHOOSE x \in S : \A y \in S : x <= y

\* pressureToHeight: the barometric fallback is kept symbolic (it is a power of p);
\* data[0] of an empty list is undefined and reading its field throws a TypeError
pressureToHeight(sd, p) ==
    IF IsNull(sd) THEN [kind |-> "barometric", p |-> p]
    ELSE LET data == sd.data
             n == Len(data)
             found == Bracketing(data, p)
         IN  IF found # {}
             THEN LET i == SetMin(found)
                  IN  [kind |-> "value",
                       v |-> LinearInterp(p, data[i].pressure, data[i].height,
                                          data[i + 1].pressure, data[i + 1].height)]
             ELSE IF n = 0 THEN [kind |-> "TypeError"]
             ELSE IF Ge(p, data[1].pressure) THEN [kind |-> "value", v |-> R(data[1].height)]
             ELSE IF Le(p, data[n].pressure) THEN [kind |-> "value", v |-> R(data[n].height)]
             ELSE [kind |-> "value", v |-> R(0)]

\* tempToX adds skew * (ln(pMax) - ln(p)) to a linear map of t: only the class of
\* the result is kept (Math.log of a negative number is NaN, of 0 is -Infinity)
tempToX(t, p) ==
    IF isNaN(t) \/ isNaN(p) \/ Lt(p, 0) THEN "NaN"
    ELSE IF p = 0 \/ p = Inf \/ t = Inf \/ t = NegInf THEN "infinite"
    ELSE "finite"

tMin == -60
tMax == 50
skew == 35

\* Math.log on the pressures below, in units of 1/10000 (rounded to the nearest)
LogScale == 10000
LogTable ==
    1 :> 0 @@ 50 :> 39120 @@ 100 :> 46052 @@ 150 :> 50106 @@ 200 :> 52983 @@ 250 :> 55215
    @@ 300 :> 57038 @@ 400 :> 59915 @@ 500 :> 62146 @@ 700 :> 65511 @@ 850 :> 67452
    @@ 925 :> 68298 @@ 1000 :> 69078 @@ 1049 :> 69556 @@ 1050 :> 69565
MathLog(p) == <<LogTable[p], LogScale>>

\* baseX = margin.left + width * (t - tMin) / (tMax - tMin)
BaseX(t) == RAdd(R(marginLeft), RMul(R(plotWidth), RDiv(R(t - tMin), R(tMax - tMin))))

\* a skew that leans the other way
SkewOffsetReversed(p) == RMul(R(skew), RSub(MathLog(p), MathLog(pMax)))

\* skewOffset = skew * (logPMax - logP)
SkewOffset(p) == RMul(R(skew), RSub(MathLog(pMax), MathLog(p)))

\* tempToX(t, p) as a number, for a temperature and a pressure of the log table
tempToXValue(t, p) == RAdd(BaseX(t), SkewOffset(p))

\* a direct call of tempToX(t, p)
TempToX(t, p) ==
    /\ query' = [op |-> "tempToX", t |-> t, p |-> p]
    /\ answer' = tempToXValue(t, p)
    /\ UNCHANGED <<hMin, hMax, soundingData, drawLog, drawnRange, tempLine, dewLine,
                   windBarbs, threw, currentSoundingData, minHeightInput, maxHeightInput,
                   errorActive, loadingActive, loadBtnDisabled, requests, nextId, attempt,
                   fetchPc, fetchLog>>

----------------------------------------------------------------------------
(* SkewTDiagram.draw *)

\* a - b on stored numbers
NSub(a, b) ==
    IF isNaN(a) \/ isNaN(b) THEN NaN
    ELSE IF a = Inf THEN (IF b = Inf THEN NaN ELSE Inf)
    ELSE IF a = NegInf THEN (IF b = NegInf THEN NaN ELSE NegInf)
    ELSE IF b = Inf THEN NegInf
    ELSE IF b = NegInf THEN Inf
    ELSE a - b
NAbs(a) == IF isNaN(a) THEN NaN ELSE IF a = NegInf THEN Inf ELSE IF a = Inf THEN Inf ELSE Abs(a)

Indexed(data) == [i \in 1..Len(data) |-> [i |-> i, row |-> data[i]]]

Vertex(lo, hi, i, row, value) ==
    [i |-> i, x |-> tempToX(value, row.pressure), y |-> heightToY(lo, hi, row.height)]

\* drawTemperatureProfile / drawDewpointProfile: the moveTo/lineTo vertices, in order
\*   if (isNaN(row.temp) || row.pressure < pMin || row.pressure > pMax) return;
\*   if (row.height < hMin || row.height > hMax) return;
ProfileLine(lo, hi, data, field) ==
    LET Kept(e) ==
            /\ ~(isNaN(e.row[field]) \/ Lt(e.row.pressure, pMin) \/ Gt(e.row.pressure, pMax))
            /\ ~(Lt(e.row.height, lo) \/ Gt(e.row.height, hi))
        kept == SelectSeq(Indexed(data), Kept)
    IN  [k \in 1..Len(kept) |-> Vertex(lo, hi, kept[k].i, kept[k].row, kept[k].row[field])]

drawTemperatureProfile(lo, hi, data) == ProfileLine(lo, hi, data, "temp")
drawDewpointProfile(lo, hi, data) == ProfileLine(lo, hi, data, "dewpoint")

\* one interval for every view
BarbIntervalFixed(lo, hi) == 250

\* heightRange < 5000 ? 250 : 500
BarbInterval(lo, hi) == IF Lt(NSub(hi, lo), 5000) THEN 250 ELSE 500

Eligible(lo, hi, row) ==
    /\ Ge(row.pressure, pMin) /\ Le(row.pressure, pMax)
    /\ Ge(row.height, lo) /\ Le(row.height, hi)
    /\ ~isNaN(row.windSpeed) /\ ~isNaN(row.windDir)

\* the data.forEach of drawWindBarbs from row i on: the indices pushed to windData
RECURSIVE WindData(_, _, _, _, _, _)
WindData(lo, hi, data, i, lastH, acc) ==
    IF i > Len(data) THEN acc
    ELSE IF /\ Eligible(lo, hi, data[i])
            /\ (Ge(NAbs(NSub(data[i].height, lastH)), BarbInterval(lo, hi)) \/ Len(acc) = 0)
         THEN WindData(lo, hi, data, i + 1, data[i].height, Append(acc, i))
         ELSE WindData(lo, hi, data, i + 1, lastH, acc)

drawWindBarbs(lo, hi, data) ==
    LET windData == WindData(lo, hi, data, 1, -10000, <<>>)
    IN  [k \in 1..Len(windData) |->
            [i |-> windData[k],
             y |-> heightToY(lo, hi, data[windData[k]].height),
             glyph |-> drawWindBarb(data[windData[k]].windSpeed)]]

MajorPressures == {1000, 925, 850, 700, 500, 400, 300, 250, 200, 150, 100}

FramePhases ==
    <<"clear", "heightAxis", "isobars", "isotherms", "dryAdiabats", "moistAdiabats",
      "mixingRatio", "border">>

\* the pressures a phase hands to pressureToHeight (for the curve families, the first
\* sample p = pMax, which is inside their temperature tolerance for some curve)
Probes(phase) ==
    IF phase = "isobars" THEN {p \in MajorPressures : ~(p < pMin \/ p > pMax)}
    ELSE IF phase = "isotherms" THEN {pMax, pMin}
    ELSE IF phase \in {"dryAdiabats", "moistAdiabats", "mixingRatio"} THEN {pMax}
    ELSE {}

PhaseThrows(sd, phase) == \E p \in Probes(phase) : pressureToHeight(sd, p).kind = "TypeError"

\* the phases of `phases` from k on that complete, up to the first that throws
RECURSIVE RunPhases(_, _, _, _)
RunPhases(sd, phases, k, done) ==
    IF k > Len(phases) THEN [log |-> done, threw |-> FALSE]
    ELSE IF PhaseThrows(sd, phases[k]) THEN [log |-> done, threw |-> TRUE]
    ELSE RunPhases(sd, phases, k + 1, Append(done, phases[k]))

\* soundingData && soundingData.data && soundingData.data.length > 0
HasData(sd) == ~IsNull(sd) /\ Len(sd.data) > 0

\* draw(sd) under the view lo..hi: the phases completed, whether an exception left
\* draw, and what the three data phases emitted (drawnRange is the height range the
\* axis ticks and every y coordinate of the picture were computed for)
DataPhases(lo, hi, sd, run) ==
    LET ran(ph) == \E k \in 1..Len(run.log) : run.log[k] = ph
    IN  [log |-> run.log, threw |-> run.threw,
         temp |-> IF ran("temperature") THEN drawTemperatureProfile(lo, hi, sd.data) ELSE <<>>,
         dew |-> IF ran("dewpoint") THEN drawDewpointProfile(lo, hi, sd.data) ELSE <<>>,
         barbs |-> IF ran("windBarbs") THEN drawWindBarbs(lo, hi, sd.data) ELSE <<>>]

DrawOutcome(lo, hi, sd) ==
    LET phases == FramePhases
                  \o (IF HasData(sd) THEN <<"temperature", "dewpoint", "windBarbs">> ELSE <<>>)
                  \o <<"title">>
    IN  DataPhases(lo, hi, sd, RunPhases(sd, phases, 1, <<>>))

\* the effect of this.diagram.draw(sd) / diagram.draw(sd) on the diagram and the canvas
DrawEffect(lo, hi, sd) ==
    \E o \in {DrawOutcome(lo, hi, sd)} :
        /\ soundingData' = sd
        /\ drawLog' = o.log
        /\ drawnRange' = <<lo, hi>>
        /\ threw' = o.threw
        /\ tempLine' = o.temp
        /\ dewLine' = o.dew
        /\ windBarbs' = o.barbs

\* a setHeightRange that drops the stored Profile
SetHeightRangeClearing(minHeight, maxHeight) ==
    /\ hMin' = minHeight
    /\ hMax' = maxHeight
    /\ soundingData' = Null
    /\ UNCHANGED <<canvasVars, appVars, callVars>>

\* setHeightRange(minHeight, maxHeight)
SetHeightRange(minHeight, maxHeight) ==
    /\ hMin' = minHeight
    /\ hMax' = maxHeight
    /\ UNCHANGED <<soundingData, canvasVars, appVars, callVars>>

\* draw(sd)
Draw(sd) ==
    /\ DrawEffect(hMin, hMax, sd)
    /\ UNCHANGED <<hMin, hMax, appVars, callVars>>

\* a direct call of pressureToHeight(p)
PressureToHeight(p) ==
    /\ query' = [op |-> "pressureToHeight", p |-> p, on |-> soundingData]
    /\ answer' = pressureToHeight(soundingData, p)
    /\ UNCHANGED <<diagramVars, canvasVars, appVars, fetchVars>>

\* a direct call of drawWindBarb(x, y, direction, speedMS)
DrawWindBarb(speedMS) ==
    /\ query' = [op |-> "drawWindBarb", speedMS |-> speedMS]
    /\ answer' = drawWindBarb(speedMS)
    /\ UNCHANGED <<diagramVars, canvasVars, appVars, fetchVars>>

\* new SkewTDiagram(canvasId), nothing drawn or asked yet
InitDiagram ==
    /\ hMin = 0 /\ hMax = 4500 /\ soundingData = Null
    /\ drawLog = <<>> /\ drawnRange = <<0, 4500>> /\ tempLine = <<>> /\ dewLine = <<>> /\ windBarbs = <<>> /\ threw = FALSE
    /\ query = [op |-> "none"] /\ answer = [kind |-> "none"]

\* no application around the diagram
NoApp ==
    /\ currentSoundingData = Null
    /\ minHeightInput = NaN /\ maxHeightInput = NaN
    /\ errorActive = FALSE /\ loadingActive = FALSE /\ loadBtnDisabled = FALSE
    /\ requests = {} /\ nextId = 1 /\ attempt = <<>>
    /\ fetchPc = "idle" /\ fetchLog = <<>>

----------------------------------------------------------------------------
(* The wind-barb encoder on its own: every speed from calm to MaxSpeed *)

MaxSpeed == 1300

InitBarb == InitDiagram /\ NoApp
NextBarb == \E s \in 0..MaxSpeed : DrawWindBarb(s)
SpecBarb == InitBarb /\ [][NextBarb]_vars

KindsOf(glyph) == [k \in 1..Len(glyph) |-> glyph[k].kind]
Count(glyph, kind) == Cardinality({k \in 1..Len(glyph) : glyph[k].kind = kind})
Rep(kind, n) == [k \in 1..n |-> kind]

\* the glyph of a speed given in units of 0.05 km/h, in closed form: P = floor((v + 2.5) / 50)
\* pennants, F = floor((v - 50 P + 2.5) / 10) full barbs, a half barb iff 2.5 or more is left
ExpectedKinds(kmh) ==
    IF kmh < 50 THEN <<"circle">>
    ELSE LET P == (kmh + 50) \div 1000
             r1 == kmh - 1000 * P
             F == (r1 + 50) \div 200
             r2 == r1 - 200 * F
         IN  <<"staff">> \o Rep("pennant", P) \o Rep("barb", F)
                 \o (IF r2 >= 50 THEN <<"half">> ELSE <<>>)

\* C1: the glyph is a fixed function of speedKmh = speedMS * 3.6: below 2.5 km/h the calm
\* circle alone; otherwise one staff, then P pennants, then F full barbs, then at most one
\* half barb, in that order, P, F and H being the greedy counts with thresholds 47.5, 7.5
\* and 2.5. 25 km/h is staff + 2 barbs + half, 52 km/h is staff + 1 pennant, 1.0 km/h is
\* the circle.
C1_GlyphOfSpeed ==
    query.op = "drawWindBarb" =>
        /\ KindsOf(answer) = ExpectedKinds(2 * query.speedMS)
        /\ query.speedMS = 250 => KindsOf(answer) = <<"staff", "barb", "barb", "half">>
        /\ query.speedMS = 520 => KindsOf(answer) = <<"staff", "pennant">>
        /\ query.speedMS = 10 => KindsOf(answer) = <<"circle">>

C1_Witness ==
    /\ query.op = "drawWindBarb" /\ query.speedMS = 1250
    /\ KindsOf(answer) = <<"staff", "pennant", "pennant", "barb", "barb", "half">>

\* the speed a glyph shows, in units of 0.05 km/h
Encoded(glyph) ==
    1000 * Count(glyph, "pennant") + 200 * Count(glyph, "barb") + 100 * Count(glyph, "half")

\* C2: for every speed >= 0 the speed the glyph encodes, 50 * pennants + 10 * full barbs
\* + 5 * half barbs, is a multiple of 5 km/h within 2.5 km/h of speedKmh.
C2_NearestFive ==
    query.op = "drawWindBarb" =>
        /\ Encoded(answer) % 100 = 0
        /\ Abs(Encoded(answer) - 2 * query.speedMS) <= 50

\* 47.5 km/h is drawn as one pennant, 2.5 km/h above the speed
C2_Witness ==
    /\ query.op = "drawWindBarb" /\ query.speedMS = 475
    /\ Encoded(answer) = 1000

\* C19: every pennant and every barb is attached at a point of the staff: for every wind
\* speed the attachment distance from the anchor (currentDist, from the staff length 30,
\* less 10 per pennant and 6 per full barb) stays between 0 and 30 for every element
\* drawn, the half barb included.
C19_AttachedToStaff ==
    query.op = "drawWindBarb" =>
        \A k \in 1..Len(answer) :
            answer[k].kind \in {"pennant", "barb", "half"} =>
                (0 <= answer[k].dist /\ answer[k].dist <= barbLength)

----------------------------------------------------------------------------
(* tempToX on its own: temperatures of the axis, pressures of the log table *)

SkewTemps == {-60, -40, -20, 0, 10, 20, 35, 50}
SkewPressures == DOMAIN LogTable

InitSkew == InitDiagram /\ NoApp
NextSkew == \E t \in SkewTemps, p \in SkewPressures : TempToX(t, p)
SpecSkew == InitSkew /\ [][NextSkew]_vars

\* x without skew: the temperature axis runs from x = 100 at -60 C to x = 850 at 50 C
UnskewedX(t) == <<100 * 110 + 750 * (t + 60), 110>>

\* C18: with skew > 0, tempToX(t, pMax) is the unskewed base x for every temperature t
\* (skew offset 0), and for 0 < p < pMax the skew offset tempToX(t, p) - tempToX(t, pMax)
\* is strictly positive and strictly larger for smaller p.
C18_SkewGrowsWithHeight ==
    query.op = "tempToX" =>
        LET t == query.t
            p == query.p
            offset == RSub(answer, tempToXValue(t, pMax))
        IN  /\ skew > 0
            /\ p = pMax =>
                   /\ answer[2] > 0
                   /\ answer[1] * UnskewedX(t)[2] = UnskewedX(t)[1] * answer[2]
            /\ (0 < p /\ p < pMax) =>
                   /\ RLt(R(0), offset)
                   /\ \A q \in SkewPressures :
                          (0 < q /\ q < p) =>
                              RLt(offset, RSub(tempToXValue(t, q), tempToXValue(t, pMax)))

\* at 500 hPa the 0 C isotherm is 35 * ln(1050 / 500) = 25.97 to the right of its foot
C18_Witness ==
    /\ query.op = "tempToX" /\ query.t = 0 /\ query.p = 500
    /\ RLt(R(25), RSub(answer, tempToXValue(0, pMax)))
    /\ RLt(RSub(answer, tempToXValue(0, pMax)), R(26))

----------------------------------------------------------------------------
(* pressureToHeight over drawn Profiles: Levels in any order, pressures may repeat *)

MaxLevels == 3

PHPressures == {1000, 850, 700}
PHHeights == {0, 1500, 3000}
PHLevels == {Level(p, h, 10, 5, 180, 90) : p \in PHPressures, h \in PHHeights}
PHProfiles == UNION {[1..n -> PHLevels] : n \in 0..MaxLevels}
PHQueries == {50, 700, 775, 850, 925, 1000, 1050}

\* each behaviour is one draw of a Profile, with direct calls before and after it
FirstDraw(sd) == drawLog = <<>> /\ Draw(sd)

InitPH == InitDiagram /\ NoApp
NextPH ==
    \/ \E data \in PHProfiles : FirstDraw(Result(data))
    \/ \E p \in PHQueries : PressureToHeight(p)
SpecPH == InitPH /\ [][NextPH]_vars

Pressures(data) == {data[i].pressure : i \in 1..Len(data)}
StrictlyDescending(data) == \A i \in 1..(Len(data) - 1) : data[i].pressure > data[i + 1].pressure
Descending(data) == \A i \in 1..(Len(data) - 1) : data[i].pressure >= data[i + 1].pressure
Ascending(data) == \A i \in 1..(Len(data) - 1) : data[i].pressure <= data[i + 1].pressure

ExampleProfile ==
    <<Level(1000, 0, 10, 5, 180, 90), Level(850, 1500, 10, 5, 180, 90),
      Level(700, 3000, 10, 5, 180, 90)>>

NearestEndHeights(data, p) ==
    LET ends == {1, Len(data)}
        near == {e \in ends : \A f \in ends : Abs(p - data[e].pressure) <= Abs(p - data[f].pressure)}
    IN  {R(data[e].height) : e \in near}

\* C4: for a stored Profile of at least one Level, its pressures descending or ascending,
\* and a pressure above its largest or below its smallest pressure, pressureToHeight
\* returns the height of the end Level whose pressure is nearest.
C4_ClampsToNearestEnd ==
    (/\ query.op = "pressureToHeight" /\ ~IsNull(query.on) /\ Len(query.on.data) >= 1
     /\ (Descending(query.on.data) \/ Ascending(query.on.data))
     /\ \/ \A q \in Pressures(query.on.data) : query.p > q
        \/ \A q \in Pressures(query.on.data) : query.p < q) =>
        /\ answer.kind = "value"
        /\ answer.v \in NearestEndHeights(query.on.data, query.p)

MinOf(S) == CHOOSE x \in S : \A y \in S : x <= y
MaxOf(S) == CHOOSE x \in S : \A y \in S : x >= y
Heights(data) == {data[i].height : i \in 1..Len(data)}

\* C20: for every stored Profile with at least one Level, pressures and heights finite
\* (any order, duplicates allowed), and every p > 0, pressureToHeight(p) is a finite
\* height between the Profile's minimum and maximum height: the final return 0 is never
\* reached and the interpolation ratio is never computed with p1 = p2.
C20_HeightWithinProfile ==
    (query.op = "pressureToHeight" /\ ~IsNull(query.on) /\ Len(query.on.data) >= 1) =>
        LET data == query.on.data
            p == query.p
            found == {i \in 1..(Len(data) - 1) : data[i].pressure >= p /\ p >= data[i + 1].pressure}
        IN  /\ answer.kind = "value"
            /\ RIsFinite(answer.v)
            /\ RLe(R(MinOf(Heights(data))), answer.v)
            /\ RLe(answer.v, R(MaxOf(Heights(data))))
            /\ \A i \in found :
                   (\A j \in found : i <= j) => data[i].pressure # data[i + 1].pressure

----------------------------------------------------------------------------
(* draw after zooming: Levels with fields out of range or missing *)

MaxDrawLevels == 2

GoodLevel == Level(900, 1000, 10, 5, 180, 90)
DrawLevels ==
    {GoodLevel, Level(850, 1100, 8, 3, 400, 270), Level(700, 3000, 0, -10, 20, 0)}
    \cup {[GoodLevel EXCEPT !.pressure = p] : p \in {50, 1100, NaN}}
    \cup {[GoodLevel EXCEPT !.height = h] : h \in {200, 5000, NaN}}
    \cup {[GoodLevel EXCEPT ![f] = NaN] : f \in {"temp", "dewpoint", "windSpeed", "windDir"}}
DrawProfiles == UNION {[1..n -> DrawLevels] : n \in 0..MaxDrawLevels}
Views == {<<0, 4500>>, <<500, 4500>>, <<0, 12000>>}

InitDraw == InitDiagram /\ NoApp
NextDraw ==
    \/ \E v \in Views : SetHeightRange(v[1], v[2])
    \/ \E data \in DrawProfiles : FirstDraw(Result(data))
    \/ FirstDraw(Null)
SpecDraw == InitDraw /\ [][NextDraw]_vars

Drawn == drawLog # <<>>

\* C5: draw with a Profile of zero Levels completes without throwing: it draws the height
\* axis, the isobars, the reference-curve families, the border and the title, and skips
\* the temperature, dewpoint and wind-barb phases.
C5_EmptyProfileDraws ==
    (Drawn /\ ~IsNull(soundingData) /\ Len(soundingData.data) = 0) =>
        /\ ~threw
        /\ drawLog = FramePhases \o <<"title">>

\* the indices of the vertices of a polyline, in order
Indices(line) == [k \in 1..Len(line) |-> line[k].i]

\* the Levels of data the claim lets through, in Profile order
Visible(a, b, data, field) ==
    LET Shown(e) ==
            /\ e.row.height # NaN /\ a <= e.row.height /\ e.row.height <= b
            /\ e.row.pressure # NaN /\ pMin <= e.row.pressure /\ e.row.pressure <= pMax
            /\ e.row[field] # NaN
        shown == SelectSeq(Indexed(data), Shown)
    IN  [k \in 1..Len(shown) |-> shown[k].i]

\* C9: after setHeightRange(a, b) with a < b and draw(profile), the vertices of the
\* temperature and dewpoint polylines are exactly the Levels, in Profile order, with
\* a <= height <= b, pMin <= pressure <= pMax and a plotted value that is not NaN; a
\* Level outside the height or pressure range contributes no vertex.
C9_VisibleVerticesOnly ==
    (Drawn /\ HasData(soundingData) /\ drawnRange[1] < drawnRange[2]) =>
        /\ Indices(tempLine) = Visible(drawnRange[1], drawnRange[2], soundingData.data, "temp")
        /\ Indices(dewLine) = Visible(drawnRange[1], drawnRange[2], soundingData.data, "dewpoint")

\* C10: a Level with NaN in a field used to place it (pressure, height, the plotted
\* temp or dewpoint, windSpeed or windDir for barbs) contributes no vertex to its
\* polyline and no wind barb, the other Levels are still drawn, and every emitted
\* vertex has x and y coordinates that are not NaN.
C10_NaNLevelsSkipped ==
    (Drawn /\ HasData(soundingData)) =>
        LET data == soundingData.data
            Placed(i) == data[i].pressure # NaN /\ data[i].height # NaN
        IN  /\ ~threw
            /\ \A k \in 1..Len(tempLine) :
                   /\ Placed(tempLine[k].i) /\ data[tempLine[k].i].temp # NaN
                   /\ tempLine[k].x # "NaN" /\ ~RIsNaN(tempLine[k].y)
            /\ \A k \in 1..Len(dewLine) :
                   /\ Placed(dewLine[k].i) /\ data[dewLine[k].i].dewpoint # NaN
                   /\ dewLine[k].x # "NaN" /\ ~RIsNaN(dewLine[k].y)
            /\ \A k \in 1..Len(windBarbs) :
                   /\ Placed(windBarbs[k].i)
                   /\ data[windBarbs[k].i].windSpeed # NaN /\ data[windBarbs[k].i].windDir # NaN
                   /\ ~RIsNaN(windBarbs[k].y)

\* the phases draw(sd) is to run, in order
PhaseOrder(sd) ==
    <<"clear", "heightAxis", "isobars", "isotherms", "dryAdiabats", "moistAdiabats",
      "mixingRatio", "border">>
    \o (IF ~IsNull(sd) /\ Len(sd.data) >= 1 THEN <<"temperature", "dewpoint", "windBarbs">> ELSE <<>>)
    \o <<"title">>

\* C11: every draw runs its phases in the fixed order clear, height axis, isobars,
\* isotherms, dry adiabats, moist adiabats, mixing-ratio lines, border, then (only with a
\* Profile of at least one Level) temperature, dewpoint, wind barbs, and last the
\* title/legend, which runs in every draw, with or without a Profile.
C11_PhaseOrder == Drawn => drawLog = PhaseOrder(soundingData)

----------------------------------------------------------------------------
(* drawWindBarbs: which Levels get a barb *)

MaxWindLevels == 3

WindLevel == Level(900, 1000, 10, 5, 180, 90)
WindLevels ==
    {[WindLevel EXCEPT !.height = h] : h \in {NaN, 1000, 1100, 1300, 1600, 5000}}
    \cup {[WindLevel EXCEPT !.pressure = 50], [WindLevel EXCEPT !.windSpeed = NaN],
          [WindLevel EXCEPT !.windDir = NaN]}
WindProfiles == UNION {[1..n -> WindLevels] : n \in 1..MaxWindLevels}

InitWind == InitDiagram /\ NoApp
NextWind ==
    \/ \E v \in Views : SetHeightRange(v[1], v[2])
    \/ \E data \in WindProfiles : FirstDraw(Result(data))
SpecWind == InitWind /\ [][NextWind]_vars

\* the Levels of data that may carry a barb in the view a..b, in Profile order
EligibleIndices(a, b, data) ==
    LET Ok(e) ==
            /\ e.row.pressure # NaN /\ pMin <= e.row.pressure /\ e.row.pressure <= pMax
            /\ e.row.height # NaN /\ a <= e.row.height /\ e.row.height <= b
            /\ e.row.windSpeed # NaN /\ e.row.windDir # NaN
        ok == SelectSeq(Indexed(data), Ok)
    IN  [k \in 1..Len(ok) |-> ok[k].i]

\* C12: the first eligible Level (inside the pressure and height bounds, wind speed and
\* direction not NaN) is always plotted, every two consecutively plotted barbs have
\* heights at least the interval apart, 250 m when hMax - hMin < 5000 and 500 m
\* otherwise, and every plotted barb belongs to an eligible Level.
C12_BarbsDecimated ==
    (Drawn /\ HasData(soundingData)) =>
        LET data == soundingData.data
            a == drawnRange[1]
            b == drawnRange[2]
            eligible == EligibleIndices(a, b, data)
            plotted == Indices(windBarbs)
            interval == IF b - a < 5000 THEN 250 ELSE 500
        IN  /\ \A k \in 1..Len(plotted) : \E e \in 1..Len(eligible) : eligible[e] = plotted[k]
            /\ Len(eligible) >= 1 => (Len(plotted) >= 1 /\ plotted[1] = eligible[1])
            /\ \A k \in 1..(Len(plotted) - 1) :
                   /\ plotted[k] < plotted[k + 1]
                   /\ Abs(data[plotted[k + 1]].height - data[plotted[k]].height) >= interval

\* in the view 0..12000 the Level at 1300 m is dropped, 300 m above the first barb
C12_Witness ==
    /\ Drawn /\ HasData(soundingData) /\ drawnRange = <<0, 12000>>
    /\ Len(soundingData.data) = 3
    /\ soundingData.data[1].height = 1000 /\ soundingData.data[2].height = 1300
    /\ soundingData.data[3].height = 1600
    /\ Indices(windBarbs) = <<1, 3>>

----------------------------------------------------------------------------
(* The diagram's state over any sequence of setHeightRange, draw and pressureToHeight *)

DiagramProfiles ==
    {Null, Result(<<>>), Result(<<GoodLevel>>), Result(ExampleProfile),
     Result(<<Level(700, 3000, 0, -10, 20, 0), Level(850, 1500, 8, 3, 400, 270)>>)}
DiagramQueries == {500, 925}

InitState == InitDiagram /\ NoApp
NextState ==
    \/ \E v \in Views : SetHeightRange(v[1], v[2])
    \/ \E sd \in DiagramProfiles : Draw(sd)
    \/ \E p \in DiagramQueries : PressureToHeight(p)
SpecState == InitState /\ [][NextState]_vars

\* C15: the stored Profile is the argument of the most recent draw (null before the
\* first) and (hMin, hMax) are the arguments of the most recent setHeightRange (0, 4500
\* before the first): draw leaves hMin/hMax unchanged, setHeightRange leaves the stored
\* Profile unchanged, and pressureToHeight changes neither and answers from the stored
\* Profile, by the barometric formula exactly when no Profile is stored.
C15_StoredState ==
    /\ (IsNull(soundingData) /\ hMin = 0 /\ hMax = 4500)
    /\ [][/\ \A sd \in DiagramProfiles :
               Draw(sd) => (soundingData' = sd /\ UNCHANGED <<hMin, hMax>>)
          /\ \A v \in Views :
               SetHeightRange(v[1], v[2]) =>
                   (hMin' = v[1] /\ hMax' = v[2] /\ UNCHANGED soundingData)
          /\ \A p \in DiagramQueries :
               PressureToHeight(p) =>
                   /\ UNCHANGED <<soundingData, hMin, hMax>>
                   /\ answer'.kind = "barometric" <=> IsNull(soundingData)
                   /\ (soundingData = Result(ExampleProfile) /\ p = 925) =>
                          answer' = [kind |-> "value", v |-> <<750, 1>>]
                   /\ (soundingData = Result(<<GoodLevel>>)) =>
                          answer' = [kind |-> "value", v |-> <<1000, 1>>]]_vars

\* two draws and a zoom later, 925 hPa is answered from the Profile drawn last
C15_Witness ==
    /\ query.op = "pressureToHeight" /\ query.p = 925 /\ query.on = Result(ExampleProfile)
    /\ soundingData = Result(ExampleProfile) /\ hMin = 500 /\ hMax = 4500
    /\ drawnRange = <<0, 12000>>
    /\ answer = [kind |-> "value", v |-> <<750, 1>>]

----------------------------------------------------------------------------
(* SoundingApp *)

defaultMaxH == 4500

\* showLoading(show)
ShowLoading(show) == loadingActive' = show /\ loadBtnDisabled' = show

\* the smallest height that is not NaN, from Infinity
MinHeight(data) ==
    LET hs == {data[i].height : i \in {j \in 1..Len(data) : ~isNaN(data[j].height)}}
    IN  IF hs = {} THEN Inf ELSE SetMin(hs)

\* Math.floor(minH / 100) * 100
FloorTo100(h) == IF h = Inf \/ h = NegInf \/ isNaN(h) THEN h ELSE (h \div 100) * 100

\* resetZoomToDataRange(result), for a result with data: the two inputs and setHeightRange
ResetZoomToDataRange(result) ==
    LET minH == FloorTo100(MinHeight(result.data))
    IN  /\ minHeightInput' = minH
        /\ maxHeightInput' = defaultMaxH
        /\ hMin' = minH
        /\ hMax' = defaultMaxH

\* station.trim()
Trim(station) == IF station = " " THEN "" ELSE station

\* loadSounding up to its await: the check of the inputs, showLoading(true), hideError()
\* and the request sent
LoadSounding(station, date) ==
    IF Trim(station) = "" \/ date = ""
    THEN /\ errorActive' = TRUE
         /\ UNCHANGED <<currentSoundingData, minHeightInput, maxHeightInput, loadingActive,
                        loadBtnDisabled, requests, nextId, attempt, diagramVars, canvasVars, callVars>>
    ELSE /\ ShowLoading(TRUE)
         /\ errorActive' = FALSE
         /\ requests' = requests \cup {nextId}
         /\ nextId' = nextId + 1
         /\ attempt' = Append(attempt, "direct")
         /\ UNCHANGED <<currentSoundingData, minHeightInput, maxHeightInput,
                        diagramVars, canvasVars, callVars>>

\* the catch block of loadSounding: showError(errorMessage); showLoading(false)
LoadCatch ==
    /\ errorActive' = TRUE
    /\ ShowLoading(FALSE)

\* a failed load that forgets the sounding on display
LoadFailsForgetting(r) ==
    /\ r \in requests
    /\ requests' = requests \ {r}
    /\ LoadCatch
    /\ attempt' = [attempt EXCEPT ![r] = "failed"]
    /\ currentSoundingData' = Null
    /\ UNCHANGED <<minHeightInput, maxHeightInput, nextId, diagramVars, canvasVars, callVars>>

\* loadSounding after its await, fetchData having rejected
LoadFails(r) ==
    /\ r \in requests
    /\ requests' = requests \ {r}
    /\ LoadCatch
    /\ attempt' = [attempt EXCEPT ![r] = "failed"]
    /\ UNCHANGED <<currentSoundingData, minHeightInput, maxHeightInput, nextId,
                   diagramVars, canvasVars, callVars>>

\* a loadSounding that takes whatever the parser returns
LoadArrivesUnchecked(r, result) ==
    /\ r \in requests
    /\ requests' = requests \ {r}
    /\ LET minH == FloorTo100(MinHeight(result.data))
       IN  /\ currentSoundingData' = result
           /\ ResetZoomToDataRange(result)
           /\ DrawEffect(minH, defaultMaxH, result)
           /\ IF threw' THEN LoadCatch ELSE ShowLoading(FALSE) /\ UNCHANGED errorActive
           /\ attempt' = [attempt EXCEPT ![r] = IF threw' THEN "failed" ELSE "loaded"]
    /\ UNCHANGED <<nextId, callVars>>

\* loadSounding after its await, the text fetched parsing to `result`
LoadArrives(r, result) ==
    /\ r \in requests
    /\ requests' = requests \ {r}
    /\ IF ~result.valid \/ Len(result.data) = 0
       THEN /\ LoadCatch
            /\ attempt' = [attempt EXCEPT ![r] = "failed"]
            /\ UNCHANGED <<currentSoundingData, minHeightInput, maxHeightInput,
                           diagramVars, canvasVars>>
       ELSE LET minH == FloorTo100(MinHeight(result.data))
            IN  /\ currentSoundingData' = result
                /\ ResetZoomToDataRange(result)
                /\ DrawEffect(minH, defaultMaxH, result)
                /\ IF threw' THEN LoadCatch ELSE ShowLoading(FALSE) /\ UNCHANGED errorActive
                /\ attempt' = [attempt EXCEPT ![r] = IF threw' THEN "failed" ELSE "loaded"]
    /\ UNCHANGED <<nextId, callVars>>

\* the user edits the two height inputs; a value stands for what parseFloat makes of it
TypeHeights(minText, maxText) ==
    /\ minHeightInput' = minText
    /\ maxHeightInput' = maxText
    /\ UNCHANGED <<currentSoundingData, errorActive, loadingActive, loadBtnDisabled,
                   requests, nextId, attempt, diagramVars, canvasVars, callVars>>

\* an applyZoom without the test minH >= maxH
ApplyZoomUnordered ==
    LET minH == minHeightInput
        maxH == maxHeightInput
    IN  IF IsNull(currentSoundingData) \/ isNaN(minH) \/ isNaN(maxH)
        THEN /\ errorActive' = TRUE
             /\ UNCHANGED <<currentSoundingData, minHeightInput, maxHeightInput, loadingActive,
                            loadBtnDisabled, requests, nextId, attempt, diagramVars, canvasVars, callVars>>
        ELSE /\ errorActive' = FALSE
             /\ hMin' = minH
             /\ hMax' = maxH
             /\ DrawEffect(minH, maxH, currentSoundingData)
             /\ UNCHANGED <<currentSoundingData, minHeightInput, maxHeightInput, loadingActive,
                            loadBtnDisabled, requests, nextId, attempt, callVars>>

\* applyZoom()
ApplyZoom ==
    LET minH == minHeightInput
        maxH == maxHeightInput
    IN  IF IsNull(currentSoundingData) \/ isNaN(minH) \/ isNaN(maxH) \/ Ge(minH, maxH)
        THEN /\ errorActive' = TRUE
             /\ UNCHANGED <<currentSoundingData, minHeightInput, maxHeightInput, loadingActive,
                            loadBtnDisabled, requests, nextId, attempt, diagramVars, canvasVars, callVars>>
        ELSE /\ errorActive' = FALSE
             /\ hMin' = minH
             /\ hMax' = maxH
             /\ DrawEffect(minH, maxH, currentSoundingData)
             /\ UNCHANGED <<currentSoundingData, minHeightInput, maxHeightInput, loadingActive,
                            loadBtnDisabled, requests, nextId, attempt, callVars>>

\* resetZoom()
ResetZoom ==
    IF IsNull(currentSoundingData)
    THEN UNCHANGED vars
    ELSE /\ ResetZoomToDataRange(currentSoundingData)
         /\ DrawEffect(FloorTo100(MinHeight(currentSoundingData.data)), defaultMaxH,
                       currentSoundingData)
         /\ UNCHANGED <<currentSoundingData, errorActive, loadingActive, loadBtnDisabled,
                        requests, nextId, attempt, callVars>>

\* a + ratio * (b - a) on stored numbers a, b
Lerp(a, b, ratio) == RAdd(R(a), RMul(ratio, RSub(R(b), R(a))))

\* Math.min / Math.max of two stored numbers
MathMin(a, b) == IF isNaN(a) \/ isNaN(b) THEN NaN ELSE IF a <= b THEN a ELSE b
MathMax(a, b) == IF isNaN(a) \/ isNaN(b) THEN NaN ELSE IF a >= b THEN a ELSE b

\* the pairs i, i+1 with targetHeight >= minH && targetHeight <= maxH
HeightBracketing(data, targetHeight) ==
    {i \in 1..(Len(data) - 1) :
        /\ Ge(targetHeight, MathMin(data[i].height, data[i + 1].height))
        /\ Le(targetHeight, MathMax(data[i].height, data[i + 1].height))}

AsRecord(row) ==
    [kind |-> "record", height |-> R(row.height), pressure |-> R(row.pressure),
     temp |-> R(row.temp), dewpoint |-> R(row.dewpoint),
     windSpeed |-> R(row.windSpeed), windDir |-> R(row.windDir)]

\* the data.forEach that looks for the closest row, from row i on
RECURSIVE Closest(_, _, _, _, _)
Closest(data, targetHeight, i, minDistance, closest) ==
    IF i > Len(data) THEN closest
    ELSE LET distance == NAbs(NSub(data[i].height, targetHeight))
         IN  IF Lt(distance, minDistance)
             THEN Closest(data, targetHeight, i + 1, distance, i)
             ELSE Closest(data, targetHeight, i + 1, minDistance, closest)

\* interpolateDataAtHeight(targetHeight) on the rows `data`
interpolateDataAtHeight(data, targetHeight) ==
    LET found == HeightBracketing(data, targetHeight)
    IN  IF found # {}
        THEN LET lower == data[SetMin(found)]
                 upper == data[SetMin(found) + 1]
                 ratio == RDiv(RSub(R(targetHeight), R(lower.height)),
                               RSub(R(upper.height), R(lower.height)))
             IN  [kind |-> "record", height |-> R(targetHeight),
                  pressure |-> Lerp(lower.pressure, upper.pressure, ratio),
                  temp |-> Lerp(lower.temp, upper.temp, ratio),
                  dewpoint |-> Lerp(lower.dewpoint, upper.dewpoint, ratio),
                  windSpeed |-> Lerp(lower.windSpeed, upper.windSpeed, ratio),
                  windDir |-> Lerp(lower.windDir, upper.windDir, ratio)]
        ELSE LET c == Closest(data, targetHeight, 1, Inf, 0)
             IN  IF c = 0 THEN [kind |-> "null"] ELSE AsRecord(data[c])

\* a call of interpolateDataAtHeight(targetHeight), a sounding being loaded
InterpolateDataAtHeight(targetHeight) ==
    /\ ~IsNull(currentSoundingData)
    /\ query' = [op |-> "interpolateDataAtHeight", targetHeight |-> targetHeight,
                 on |-> currentSoundingData]
    /\ answer' = interpolateDataAtHeight(currentSoundingData.data, targetHeight)
    /\ UNCHANGED <<diagramVars, canvasVars, appVars, fetchVars>>

\* a computed height as a stored number; the cursor rows of the model are the top, the
\* middle and the bottom row of the plot, where the height is a whole number
ToStored(r) ==
    IF RIsNaN(r) THEN NaN
    ELSE IF RIsInf(r) THEN (IF r[1] > 0 THEN Inf ELSE NegInf)
    ELSE r[1] \div r[2]

\* hMin + (1 - (canvasY - margin.top) / height) * (hMax - hMin)
HoverHeight(lo, hi, canvasY) ==
    LET ratio == RSub(R(1), RDiv(R(canvasY - marginTop), R(plotHeight)))
    IN  ToStored(RAdd(R(lo), RMul(ratio, RSub(R(hi), R(lo)))))

\* the tooltip after handleCanvasHover with the cursor at (canvasX, canvasY)
CursorInfo(canvasX, canvasY) ==
    IF IsNull(currentSoundingData) THEN [kind |-> "hidden"]
    ELSE IF \/ canvasX < marginLeft \/ canvasX > marginLeft + plotWidth
            \/ canvasY < marginTop \/ canvasY > marginTop + plotHeight
         THEN [kind |-> "hidden"]
    ELSE LET data == interpolateDataAtHeight(currentSoundingData.data,
                                             HoverHeight(hMin, hMax, canvasY))
         IN  IF data.kind = "null" THEN [kind |-> "hidden"]
             ELSE [kind |-> "shown", data |-> data]

\* a hover that forgets the sounding
HandleCanvasHoverForgetting(canvasX, canvasY) ==
    /\ query' = [op |-> "handleCanvasHover", x |-> canvasX, y |-> canvasY,
                 on |-> currentSoundingData, view |-> <<hMin, hMax>>]
    /\ answer' = [kind |-> "hidden"]
    /\ currentSoundingData' = Null
    /\ UNCHANGED <<diagramVars, canvasVars, minHeightInput, maxHeightInput, errorActive,
                   loadingActive, loadBtnDisabled, requests, nextId, attempt, fetchVars>>

\* handleCanvasHover(event), the cursor at (canvasX, canvasY) of the canvas
HandleCanvasHover(canvasX, canvasY) ==
    /\ query' = [op |-> "handleCanvasHover", x |-> canvasX, y |-> canvasY,
                 on |-> currentSoundingData, view |-> <<hMin, hMax>>]
    /\ answer' = CursorInfo(canvasX, canvasY)
    /\ UNCHANGED <<diagramVars, canvasVars, appVars, fetchVars>>

MaxLoads == 3
MaxAppLevels == 1

\* what the parser can return: a pressure is a number (a row starts with digits), any
\* other field may be NaN; no row at all gives valid = false
AppHeights == {NaN, 120, 5000}
AppLevels == {Level(900, h, 10, 5, 180, 90) : h \in AppHeights}
AppResults == {Result(data) : data \in UNION {[1..n -> AppLevels] : n \in 0..MaxAppLevels}}
HeightTexts == {<<NaN, 4500>>, <<1000, 4500>>, <<4500, 1000>>, <<1000, 1000>>}
StationTexts == {"", " ", "73033"}
DateTexts == {"", "2024-05-01"}

\* new SoundingApp(): the diagram as constructed, and loadInitialData's loadSounding
\* waiting for its response (the page's default station and today's date)
InitApp ==
    /\ InitDiagram
    /\ currentSoundingData = Null
    /\ minHeightInput = 0 /\ maxHeightInput = defaultMaxH
    /\ errorActive = FALSE /\ loadingActive = TRUE /\ loadBtnDisabled = TRUE
    /\ requests = {1} /\ nextId = 2 /\ attempt = <<"direct">>
    /\ fetchPc = "idle" /\ fetchLog = <<>>

NextApp ==
    \/ \E station \in StationTexts, date \in DateTexts :
           nextId <= MaxLoads /\ LoadSounding(station, date)
    \/ \E r \in requests : LoadFails(r)
    \/ \E r \in requests, result \in AppResults : LoadArrives(r, result)
    \/ \E t \in HeightTexts : TypeHeights(t[1], t[2])
    \/ ApplyZoom
    \/ ResetZoom
SpecApp == InitApp /\ [][NextApp]_vars

\* C6: every setHeightRange(min, max) of the application has min < max, so after any
\* sequence of loads, applyZoom and resetZoom the view satisfies hMin < hMax.
C6_ViewOrdered == Lt(hMin, hMax)

\* C16: applyZoom rejects invalid input before calling into the engine: with no sounding
\* loaded, a height input that is not a number, or min >= max, it shows an error and
\* calls neither setHeightRange nor draw, so hMin, hMax, the stored Profile and the
\* picture are unchanged; otherwise it calls setHeightRange(min, max) and then draw with
\* the current sounding.
C16_ZoomValidated ==
    [][ApplyZoom =>
         IF \/ IsNull(currentSoundingData)
            \/ minHeightInput = NaN \/ maxHeightInput = NaN
            \/ ~(minHeightInput < maxHeightInput)
         THEN /\ errorActive'
              /\ UNCHANGED <<hMin, hMax, soundingData, canvasVars>>
         ELSE /\ hMin' = minHeightInput /\ hMax' = maxHeightInput
              /\ soundingData' = currentSoundingData
              /\ drawnRange' = <<minHeightInput, maxHeightInput>>
              /\ drawLog' = PhaseOrder(currentSoundingData)
              /\ ~errorActive']_vars

\* a zoom to 1000..4500 was applied, a later one with 4500 and 1000 typed was refused
C16_Witness ==
    /\ ~IsNull(currentSoundingData) /\ requests = {}
    /\ hMin = 1000 /\ hMax = 4500 /\ drawnRange = <<1000, 4500>>
    /\ minHeightInput = 4500 /\ maxHeightInput = 1000
    /\ errorActive

\* C17: the application only hands the renderer a Profile with at least one Level:
\* in every reachable state currentSoundingData is null or a parse result with valid =
\* true and a non-empty data list, and every diagram.draw of loadSounding, applyZoom and
\* resetZoom passed such a result (the diagram stores the argument of its last draw).
C17_OnlyNonEmptyProfiles ==
    /\ IsNull(currentSoundingData)
           \/ (currentSoundingData.valid /\ Len(currentSoundingData.data) >= 1)
    /\ IsNull(soundingData) \/ (soundingData.valid /\ Len(soundingData.data) >= 1)
    /\ Drawn => (~IsNull(soundingData) /\ soundingData = currentSoundingData)

\* a sounding is on the canvas and a later load, whose text had no data row, has failed
C17_Witness ==
    /\ Drawn /\ HasData(soundingData) /\ soundingData = currentSoundingData
    /\ nextId = 3 /\ requests = {} /\ errorActive /\ ~loadingActive

----------------------------------------------------------------------------
(* interpolateDataAtHeight over loaded soundings: heights in any order, repeated or
   missing *)

MaxHoverLevels == 2

HoverLevels ==
    {Level(p, h, t, 5, 180, 90) : p \in {1000, 900}, h \in {NaN, 0, 1000, 2000}, t \in {10, NaN}}
HoverResults == {Result(data) : data \in UNION {[1..n -> HoverLevels] : n \in 1..MaxHoverLevels}}
HoverTargets == {-500, 0, 500, 1000, 2000, 3000}

\* cursor positions: left of the plot and inside it; above it, on its top, middle and
\* bottom row, below it
CursorXs == {50, 400}
CursorYs == {40, 50, 400, 750, 760}

\* each behaviour is the first load arriving, then calls on what it stored
InitHover == InitApp
NextHover ==
    \/ \E r \in requests, result \in HoverResults : LoadArrives(r, result)
    \/ \E h \in HoverTargets : InterpolateDataAtHeight(h)
    \/ \E x \in CursorXs, y \in CursorYs : HandleCanvasHover(x, y)
SpecHover == InitHover /\ [][NextHover]_vars

\* C7: for a Profile with at least one Level and a Level L of it with a finite height,
\* interpolateDataAtHeight(L.height) returns a record with L's pressure, temp and dewpoint.
C7_SampleHeightExact ==
    query.op = "interpolateDataAtHeight" =>
        \A i \in 1..Len(query.on.data) :
            LET L == query.on.data[i]
            IN  (L.height # NaN /\ L.height = query.targetHeight) =>
                    /\ answer.kind = "record"
                    /\ answer.pressure = R(L.pressure)
                    /\ answer.temp = R(L.temp)
                    /\ answer.dewpoint = R(L.dewpoint)

\* C14: a hover query (handleCanvasHover, interpolateDataAtHeight) is read-only: for every
\* cursor position and every state it leaves the stored Profile (every Level's fields
\* and their order), the app's currentSoundingData, the diagram's stored Profile and
\* hMin/hMax unchanged.
C14_HoverReadOnly ==
    [][(\/ \E x \in CursorXs, y \in CursorYs : HandleCanvasHover(x, y)
        \/ \E h \in HoverTargets : InterpolateDataAtHeight(h))
       => UNCHANGED <<currentSoundingData, soundingData, hMin, hMax>>]_vars

\* the cursor in the middle row of the plot, between two Levels: the tooltip shows 5 C
C14_Witness ==
    /\ query.op = "handleCanvasHover" /\ query.y = 400
    /\ ~IsNull(currentSoundingData) /\ Len(currentSoundingData.data) = 2
    /\ answer.kind = "shown"
    /\ currentSoundingData = query.on /\ soundingData = query.on /\ <<hMin, hMax>> = query.view

\* |h - target| is the least distance of a Level of data with a height
Nearest(data, i, target) ==
    /\ data[i].height # NaN
    /\ \A j \in 1..Len(data) :
           data[j].height # NaN => Abs(data[i].height - target) <= Abs(data[j].height - target)

\* C8: on a Profile with at least one Level (heights may be NaN) the result is never null:
\* it is the interpolation over the first adjacent pair whose height interval contains
\* the target or, no pair containing it, the Level nearest in height.
C8_NullOnlyWhenEmpty ==
    (query.op = "interpolateDataAtHeight" /\ Len(query.on.data) >= 1) =>
        LET data == query.on.data
            t == query.targetHeight
            Contains(i) ==
                /\ data[i].height # NaN /\ data[i + 1].height # NaN
                /\ \/ data[i].height <= t /\ t <= data[i + 1].height
                   \/ data[i + 1].height <= t /\ t <= data[i].height
        IN  /\ answer.kind = "record"
            /\ IF \E i \in 1..(Len(data) - 1) : Contains(i)
               THEN answer.height = R(t)
               ELSE \E i \in 1..Len(data) : Nearest(data, i, t) /\ answer = AsRecord(data[i])

----------------------------------------------------------------------------
(* SoundingApp.fetchData: one call at a time, each attempt ended by the network or by
   its 30 s timer *)

\* how an attempt can fail: fetch rejects, response.ok is false, the timer wins the
\* race, response.text() rejects
Failures == {"networkError", "httpError", "timeout", "bodyError"}

Urls == {"uwyo?id=73033", "uwyo?id=71600"}

\* the request of an attempt: the URL itself, or the URL behind a proxy
Request(source, url) == [source |-> source, url |-> url, outcome |-> "pending"]

\* only one proxy
NextAttemptSkipsProxy(source) ==
    IF source = "direct" THEN "corsproxy" ELSE "none"

\* the nesting of the catch blocks: what is tried after `source` has failed
NextAttempt(source) ==
    IF source = "direct" THEN "allorigins"
    ELSE IF source = "allorigins" THEN "corsproxy"
    ELSE "none"

\* fetchData(url) up to its first await
FetchData(url) ==
    /\ fetchPc # "awaiting"
    /\ fetchPc' = "awaiting"
    /\ fetchLog' = <<Request("direct", url)>>
    /\ query' = [op |-> "fetchData", url |-> url]
    /\ answer' = [kind |-> "pending"]
    /\ UNCHANGED <<diagramVars, canvasVars, appVars>>

\* the pending attempt succeeds: response.ok and its text is returned
AttemptSucceeds ==
    /\ fetchPc = "awaiting"
    /\ LET n == Len(fetchLog)
       IN  /\ fetchLog' = [fetchLog EXCEPT ![n].outcome = "ok"]
           /\ answer' = [kind |-> "text", from |-> fetchLog[n].source, url |-> fetchLog[n].url]
    /\ fetchPc' = "resolved"
    /\ UNCHANGED <<query, diagramVars, canvasVars, appVars>>

\* the pending attempt fails: the catch block starts the next attempt, the innermost
\* one throws 'Data unavailable...'
AttemptFails(failure) ==
    /\ fetchPc = "awaiting"
    /\ LET n == Len(fetchLog)
           failed == [fetchLog EXCEPT ![n].outcome = failure]
           next == NextAttempt(fetchLog[n].source)
       IN  IF next = "none"
           THEN /\ fetchLog' = failed
                /\ fetchPc' = "rejected"
                /\ answer' = [kind |-> "error", message |-> "Data unavailable"]
           ELSE /\ fetchLog' = Append(failed, Request(next, fetchLog[n].url))
                /\ fetchPc' = "awaiting"
                /\ UNCHANGED answer
    /\ UNCHANGED <<query, diagramVars, canvasVars, appVars>>

InitFetch == InitDiagram /\ NoApp
NextFetch ==
    \/ \E url \in Urls : FetchData(url)
    \/ AttemptSucceeds
    \/ \E failure \in Failures : AttemptFails(failure)
SpecFetch == InitFetch /\ [][NextFetch]_vars

SourceOrder == <<"direct", "allorigins", "corsproxy">>

\* C13: fetchData tries the direct URL, then the allorigins proxy, then corsproxy.io: an
\* attempt starts only after the previous one has failed (network error, non-OK status
\* or timeout), the first attempt that succeeds returns its text and no later attempt is
\* made, only when all three have failed does fetchData reject with 'Data unavailable',
\* and at most three requests are made per call.
C13_SourcesInOrder ==
    LET n == Len(fetchLog)
    IN  /\ n <= 3
        /\ \A k \in 1..n :
               /\ fetchLog[k].source = SourceOrder[k]
               /\ fetchLog[k].url = query.url
        /\ \A k \in 1..(n - 1) : fetchLog[k].outcome \in Failures
        /\ fetchPc = "idle" <=> n = 0
        /\ fetchPc = "awaiting" => fetchLog[n].outcome = "pending"
        /\ fetchPc = "resolved" =>
               /\ fetchLog[n].outcome = "ok"
               /\ answer = [kind |-> "text", from |-> fetchLog[n].source, url |-> query.url]
        /\ fetchPc = "rejected" <=>
               (n = 3 /\ \A k \in 1..3 : fetchLog[k].outcome \in Failures)
        /\ fetchPc = "rejected" => answer = [kind |-> "error", message |-> "Data unavailable"]

\* the direct request timed out, the first proxy answered 4xx, the second proxy's text
\* is returned
C13_Witness ==
    /\ fetchPc = "resolved" /\ Len(fetchLog) = 3
    /\ fetchLog[1].outcome = "timeout" /\ fetchLog[2].outcome = "httpError"
    /\ answer.kind = "text" /\ answer.from = "corsproxy"

----------------------------------------------------------------------------
(* loadSounding with its fetchData: loads started by the button or by Enter in the
   station input (which works while the button is disabled), each trying its three
   sources; the text a request fetches is that of its own station and date *)

\* the parse result of the text request r fetches
ResponseOf(r) == Result(<<Level(900, 100 * r, 10, 5, 180, 90)>>)

Sources == {"direct", "allorigins", "corsproxy"}

\* the stage after the response of `source` has come with response.ok: fetchData is at
\* `await response.text()`, which the timer does not race with
Reading(source) ==
    IF source = "direct" THEN "direct.text"
    ELSE IF source = "allorigins" THEN "allorigins.text"
    ELSE "corsproxy.text"

SourceOf(stage) ==
    IF stage \in {"direct", "direct.text"} THEN "direct"
    ELSE IF stage \in {"allorigins", "allorigins.text"} THEN "allorigins"
    ELSE "corsproxy"

\* the response of the pending attempt of request r comes before the timer, with
\* response.ok: its text is awaited
ResponseArrives(r) ==
    /\ r \in requests
    /\ attempt[r] \in Sources
    /\ attempt' = [attempt EXCEPT ![r] = Reading(attempt[r])]
    /\ UNCHANGED <<currentSoundingData, minHeightInput, maxHeightInput, errorActive,
                   loadingActive, loadBtnDisabled, requests, nextId,
                   diagramVars, canvasVars, callVars>>

\* the pending attempt of request r fails (fetch rejects, the status is not OK, the timer
\* fires first, or response.text() rejects): fetchData tries the next source, or rejects
\* and loadSounding goes to its catch block
LoadAttemptFails(r) ==
    /\ r \in requests
    /\ IF NextAttempt(SourceOf(attempt[r])) = "none"
       THEN LoadFails(r)
       ELSE /\ attempt' = [attempt EXCEPT ![r] = NextAttempt(SourceOf(attempt[r]))]
            /\ UNCHANGED <<currentSoundingData, minHeightInput, maxHeightInput, errorActive,
                           loadingActive, loadBtnDisabled, requests, nextId,
                           diagramVars, canvasVars, callVars>>

\* response.text() of request r resolves and the text parses to `result`
TextArrives(r, result) ==
    /\ r \in requests
    /\ attempt[r] \notin Sources
    /\ LoadArrives(r, result)

\* the race of fetch(url) with the 30 s timer of request r is decided
RaceEnds(r) ==
    \/ ResponseArrives(r)
    \/ r \in requests /\ attempt[r] \in Sources /\ LoadAttemptFails(r)

InitLoad == InitApp
NextLoad ==
    \/ \E station \in StationTexts, date \in DateTexts :
           nextId <= MaxLoads /\ LoadSounding(station, date)
    \/ \E r \in requests : ResponseArrives(r)
    \/ \E r \in requests : LoadAttemptFails(r)
    \/ \E r \in requests : TextArrives(r, ResponseOf(r))
    \/ \E r \in requests : TextArrives(r, Result(<<>>))
SpecLoad == InitLoad /\ [][NextLoad]_vars

\* every fetch eventually responds or its timer fires
SpecLoadFair == SpecLoad /\ \A r \in 1..MaxLoads : WF_vars(RaceEnds(r))

\* C21: when several loadSounding requests overlap, then once all have completed the
\* stored currentSoundingData and the drawn diagram are those of the most recently
\* started request, whatever the order in which the responses arrive.
C21_LatestLoadWins ==
    (requests = {} /\ \A r \in 1..Len(attempt) : attempt[r] = "loaded") =>
        /\ currentSoundingData = ResponseOf(Len(attempt))
        /\ soundingData = ResponseOf(Len(attempt))

\* C22: in every reachable state the loading indicator is active and the load button is
\* disabled exactly when at least one loadSounding request is in flight, under any
\* interleaving of load requests.
C22_LoadingIffInFlight ==
    /\ loadingActive <=> requests # {}
    /\ loadBtnDisabled <=> requests # {}

\* C23: every loadSounding that passes input validation eventually finishes, and
\* finishes with the loading indicator off and the load button enabled, on success and
\* on every failure path (all three attempts fail or time out, the parse yields no
\* row), provided each network attempt eventually responds or its timer fires.
C23_LoadFinishes ==
    /\ [][\A r \in requests :
             r \notin requests' => (~loadingActive' /\ ~loadBtnDisabled')]_vars
    /\ \A r \in 1..MaxLoads : (r \in requests) ~> (r \notin requests /\ r < nextId)

\* C24: a loadSounding that fails (empty station or date, all fetch attempts failing, a
\* parse result that is invalid or has no row) leaves the loaded state untouched:
\* currentSoundingData, the diagram's stored Profile, hMin/hMax and the picture keep
\* their values (neither setHeightRange nor draw is called) and an error is shown; with
\* an empty station or date no fetch is issued.
C24_FailedLoadKeepsState ==
    [][/\ \A station \in StationTexts, date \in DateTexts :
            ((Trim(station) = "" \/ date = "") /\ LoadSounding(station, date)) =>
                /\ errorActive'
                /\ UNCHANGED <<currentSoundingData, diagramVars, canvasVars>>
                /\ UNCHANGED <<requests, nextId, attempt, loadingActive, loadBtnDisabled>>
       /\ \A r \in requests :
            (\/ NextAttempt(SourceOf(attempt[r])) = "none" /\ LoadAttemptFails(r)
             \/ TextArrives(r, Result(<<>>))) =>
                /\ errorActive'
                /\ UNCHANGED <<currentSoundingData, diagramVars, canvasVars>>]_vars

\* the first sounding is still on display after the second load failed
C24_Witness ==
    /\ attempt = <<"loaded", "failed">> /\ requests = {}
    /\ currentSoundingData = ResponseOf(1) /\ soundingData = ResponseOf(1)
    /\ hMin = 100 /\ hMax = 4500 /\ drawnRange = <<100, 4500>>
    /\ errorActive

============================================================================
